---------------------------- MODULE Spec2Model ----------------------------
(***************************************************************************)
(* QR-token authentication and component-request fulfilment of the         *)
(* workshop tracking server: server/storage.ts (DatabaseStorage),          *)
(* server/routes.ts (the route handlers) and the shared schema.            *)
(*                                                                         *)
(* The database is the only shared state.  A route handler runs its        *)
(* awaited store calls one after the other; between two awaits any other   *)
(* handler may run, so every store call is one atomic step of the handler  *)
(* that makes it.                                                          *)
(***************************************************************************)
EXTENDS Integers, Sequences, FiniteSets, TLC

VARIABLES
    now,               \* the wall clock in minutes, read by every new Date()
    users,             \* users: id -> role
    components,        \* components: id -> [qrCode, stockQuantity]
    products,          \* products: id -> [qrCodeData, status,
                       \* assignedEngineerId]
    shelfLocations,    \* shelf_locations: id -> [qrCode]
    qrTokens,          \* qr_tokens, in insertion order
    componentRequests, \* component_requests, in insertion order (id = index)
    fulfillmentLogs,   \* fulfillment_logs, in insertion order
    productEvents,     \* product_events, in insertion order
    activityLogs,      \* activity_logs, in insertion order
    pc,                \* per handler: the await it is suspended at, or idle
    loc,               \* per handler: its local variables
    sent,              \* the response sent last, with the call it answers
    redeemed           \* per token string: the validateAndUseQRToken calls
                       \* that have returned a user for it

vars == <<now, users, components, products, shelfLocations, qrTokens,
          componentRequests, fulfillmentLogs, productEvents, activityLogs,
          pc, loc, sent, redeemed>>

-----------------------------------------------------------------------------
(* Bounds of the model *)

NumProcs == 2        \* route handlers that can be in flight at once
MaxTokens == 2       \* rows of qr_tokens
MaxRaced == 1        \* rows of qr_tokens while redeem calls race
MaxRequests == 1     \* rows of component_requests while fulfil calls race
MaxLedger == 2       \* rows of component_requests
MaxActivity == 2     \* rows of activity_logs
MaxEvents == 3       \* rows of product_events written for status changes
MaxTime == 30        \* last clock value

Procs == 1..NumProcs

\* the distances at which the clock is observed
TickSteps == {15}

\* the same within the lifetime of a token
FineSteps == {5, 10}

-----------------------------------------------------------------------------
(* Values *)

\* a nullable column: NULL, or the value it holds
Null == <<>>
Some(v) == <<v>>

NoUser == "undefined"
NoToken == ""
NoId == "none"

\* generateQRTokenForUser: 15 minutes expiry
TTL_MINUTES == 15

UserIds == {"adm", "eng", "inv1", "inv2", "new"}
UnknownUserId == "ghost"
ProductIds == {"prodA"}
UnknownProductId == "prodX"
ComponentIds == {"compA", "compB"}
UnknownQR == "QR-unknown"

\* rows of users (role column) as seeded, the role of "new" being null; no
\* handler of this model writes them
SeedUsers ==
    [u \in UserIds |->
        CASE u = "adm" -> "admin"
          [] u = "eng" -> "engineer"
          [] u = "new" -> "unset"
          [] OTHER -> "inventory"]

\* rows of components as seeded; no handler of the server writes them
SeedComponents ==
    [c \in ComponentIds |->
        [qrCode |-> IF c = "compA" THEN "QR-compA" ELSE "QR-compB",
         stockQuantity |-> 1]]

LocationIds == {"shelf1"}

\* rows of products as seeded: createProduct sets qrCodeData to the repair id
SeedProducts ==
    [x \in ProductIds |->
        [qrCodeData |-> "SSM-" \o x, status |-> "pending",
         assignedEngineerId |-> NoId]]

\* rows of shelf_locations as seeded
SeedLocations == [l \in LocationIds |-> [qrCode |-> "QR-" \o l]]

\* randomUUID() never repeats: the k-th insert gets the k-th string
TokenString(k) == "T" \o ToString(k)
UnknownToken == "T-unknown"
TokenStrings == {TokenString(k) : k \in 1..MaxTokens} \cup {UnknownToken}

\* the locals of a handler that is not running
IdleLoc ==
    [route |-> "", userId |-> NoId, token |-> NoToken, user |-> NoUser,
     requestId |-> 0, component |-> NoId, productId |-> NoId,
     quantity |-> 0, status |-> "", rows |-> {}, qrCode |-> "",
     type |-> ""]

\* res.status(status).json(body), kept with the route that sent it and the
\* token or request of the call
Response(status, body, call) ==
    [status |-> status, body |-> body, route |-> call.route,
     token |-> call.token, requestId |-> call.requestId, rows |-> call.rows,
     qrCode |-> call.qrCode, type |-> call.type]
NoResponse == Response(0, "", IdleLoc)

\* the handler answers and ends
Finish(p, status, body, call) ==
    /\ pc' = [pc EXCEPT ![p] = "idle"]
    /\ loc' = [loc EXCEPT ![p] = IdleLoc]
    /\ sent' = Response(status, body, call)

\* the handler goes on to its next await
Await(p, label, call) ==
    /\ pc' = [pc EXCEPT ![p] = label]
    /\ loc' = [loc EXCEPT ![p] = call]
    /\ sent' = sent

-----------------------------------------------------------------------------
(* Token store and token service (server/storage.ts) *)

\* getUser: the row, or undefined
getUser(id) == IF id \in DOMAIN users THEN id ELSE NoUser

\* user.role with a null role read as engineer
roleOfDefaultEngineer(id) ==
    IF id \notin DOMAIN users THEN "unset"
    ELSE IF users[id] = "unset" THEN "engineer" ELSE users[id]

\* user.role of the row getUser returned
roleOf(id) == IF id \in DOMAIN users THEN users[id] ELSE "unset"

\* getUserByQRToken without gt(qrTokens.expiresAt, new Date())
TokenRowMatchesNoExpiry(row, token) ==
    /\ row.token = token
    /\ row.used = Null

\* getUserByQRToken without isNull(qrTokens.used)
TokenRowMatchesNoUsed(row, token) ==
    /\ row.token = token
    /\ row.expiresAt > now

\* getUserByQRToken with eq(qrTokens.token, token) alone
TokenRowMatchesTokenOnly(row, token) == row.token = token

\* getUserByQRToken with gte in place of gt
TokenRowMatchesInclusive(row, token) ==
    /\ row.token = token
    /\ row.expiresAt >= now
    /\ row.used = Null

\* the WHERE clause of getUserByQRToken
TokenRowMatches(row, token) ==
    /\ row.token = token
    /\ row.expiresAt > now
    /\ row.used = Null

\* getUserByQRToken: qr_tokens inner join users, first row, its user
getUserByQRToken(token) ==
    LET hits == {i \in 1..Len(qrTokens) :
                    /\ TokenRowMatches(qrTokens[i], token)
                    /\ qrTokens[i].userId \in DOMAIN users}
    IN IF hits = {} THEN NoUser
       ELSE qrTokens[CHOOSE i \in hits : \A j \in hits : i <= j].userId

\* validateAndUseQRToken consuming the token by a DELETE
deleteToken(token) ==
    SelectSeq(qrTokens, LAMBDA row : row.token # token)

\* validateAndUseQRToken with an UPDATE that matches on the owner of the
\* token instead of the token
markUserTokensUsed(token) ==
    [i \in 1..Len(qrTokens) |->
        IF \E j \in 1..Len(qrTokens) :
              qrTokens[j].token = token /\ qrTokens[j].userId = qrTokens[i].userId
        THEN [qrTokens[i] EXCEPT !.used = Some(now)]
        ELSE qrTokens[i]]

\* validateAndUseQRToken: UPDATE qr_tokens SET used = new Date()
\* WHERE token = token
markTokenUsed(token) ==
    [i \in 1..Len(qrTokens) |->
        IF qrTokens[i].token = token
        THEN [qrTokens[i] EXCEPT !.used = Some(now)]
        ELSE qrTokens[i]]

\* generateQRTokenForUser without the setMinutes(... + 15)
createQRTokenNoTtl(userId) ==
    [token |-> TokenString(Len(qrTokens) + 1),
     userId |-> userId,
     expiresAt |-> now,
     used |-> Null,
     createdAt |-> now]

\* generateQRTokenForUser and createQRToken: the inserted row
createQRToken(userId) ==
    [token |-> TokenString(Len(qrTokens) + 1),
     userId |-> userId,
     expiresAt |-> now + TTL_MINUTES,
     used |-> Null,
     createdAt |-> now]

-----------------------------------------------------------------------------
(* POST /api/auth/qr-login *)

\* the handler with a validateAndUseQRToken that runs its UPDATE whatever
\* the SELECT found
QrLoginLookupAlwaysMarks(p, token) ==
    /\ pc[p] = "idle"
    /\ LET user == getUserByQRToken(token)
           call == [IdleLoc EXCEPT !.route = "qr-login", !.token = token,
                                   !.user = user]
       IN IF token = NoToken
          THEN /\ Finish(p, 400, "QR token is required",
                         [call EXCEPT !.user = NoUser])
               /\ qrTokens' = qrTokens
          ELSE IF user = NoUser
          THEN /\ Finish(p, 401, "Invalid or expired QR token", call)
               /\ qrTokens' = markTokenUsed(token)
          ELSE /\ Await(p, "ql_mark", call)
               /\ qrTokens' = qrTokens
    /\ UNCHANGED <<now, users, components, products, shelfLocations,
                   componentRequests, fulfillmentLogs, productEvents,
                   activityLogs, redeemed>>

\* the body check, then the SELECT of validateAndUseQRToken
QrLoginLookup(p, token) ==
    /\ pc[p] = "idle"
    /\ LET user == getUserByQRToken(token)
           call == [IdleLoc EXCEPT !.route = "qr-login", !.token = token,
                                   !.user = user]
       IN IF token = NoToken
          THEN Finish(p, 400, "QR token is required",
                      [call EXCEPT !.user = NoUser])
          ELSE IF user = NoUser
          THEN Finish(p, 401, "Invalid or expired QR token", call)
          ELSE Await(p, "ql_mark", call)
    /\ UNCHANGED <<now, users, components, products, shelfLocations, qrTokens,
                   componentRequests, fulfillmentLogs, productEvents,
                   activityLogs, redeemed>>

\* the handler marking the token used only once req.login has succeeded
QrLoginMarkUsedAfterLogin(p, loginOk) ==
    /\ pc[p] = "ql_mark"
    /\ qrTokens' = IF loginOk THEN markTokenUsed(loc[p].token) ELSE qrTokens
    /\ redeemed' = [redeemed EXCEPT ![loc[p].token] = @ + 1]
    /\ IF loginOk
       THEN Finish(p, 200, loc[p].user, loc[p])
       ELSE Finish(p, 500, "Failed to create session", loc[p])
    /\ UNCHANGED <<now, users, components, products, shelfLocations,
                   componentRequests, fulfillmentLogs, productEvents,
                   activityLogs>>

\* the UPDATE of validateAndUseQRToken and its return of the user, then
\* req.login and the answer
QrLoginMarkUsed(p, loginOk) ==
    /\ pc[p] = "ql_mark"
    /\ qrTokens' = markTokenUsed(loc[p].token)
    /\ redeemed' = [redeemed EXCEPT ![loc[p].token] = @ + 1]
    /\ IF loginOk
       THEN Finish(p, 200, loc[p].user, loc[p])
       ELSE Finish(p, 500, "Failed to create session", loc[p])
    /\ UNCHANGED <<now, users, components, products, shelfLocations,
                   componentRequests, fulfillmentLogs, productEvents,
                   activityLogs>>

-----------------------------------------------------------------------------
(* POST /api/auth/generate-qr *)

\* The role read touches only users, which no handler of this model writes,
\* so it is taken in one step with the insert that follows it.  The insert
\* fails on the user_id foreign key when the target is no row of users.
GenerateQr(p, caller, target) ==
    /\ pc[p] = "idle"
    /\ Len(qrTokens) < MaxTokens
    /\ LET call == [IdleLoc EXCEPT !.route = "generate-qr", !.userId = caller,
                                   !.user = target]
       IN IF getUser(caller) = NoUser \/ roleOf(caller) # "admin"
          THEN /\ Finish(p, 403, "Admin access required", call)
               /\ qrTokens' = qrTokens
          ELSE IF target = NoId
          THEN /\ Finish(p, 400, "Target user ID is required", call)
               /\ qrTokens' = qrTokens
          ELSE IF target \notin DOMAIN users
          THEN /\ Finish(p, 500, "Failed to generate QR token", call)
               /\ qrTokens' = qrTokens
          ELSE /\ qrTokens' = Append(qrTokens, createQRToken(target))
               /\ Finish(p, 200, createQRToken(target).token, call)
    /\ UNCHANGED <<now, users, components, products, shelfLocations,
                   componentRequests, fulfillmentLogs, productEvents,
                   activityLogs, redeemed>>

-----------------------------------------------------------------------------
(* Request ledger and fulfilment log (server/storage.ts) *)

\* getComponentByQR without its WHERE clause: the first row of the table
getComponentByQRNoWhere(qrCode) ==
    CHOOSE c \in DOMAIN components : TRUE

\* getComponentByQR: the id of the row, or none
getComponentByQR(qrCode) ==
    LET hits == {c \in DOMAIN components : components[c].qrCode = qrCode}
    IN IF hits = {} THEN NoId ELSE CHOOSE c \in hits : TRUE

\* insertComponentRequestSchema.parse: productId and componentId are
\* required strings, requestedQuantity a required integer column (any
\* integer)
insertComponentRequestSchema(body) ==
    /\ body.productId # NoId
    /\ body.componentId # NoId
    /\ body.quantityType = "number"

\* the foreign keys of component_requests
RequestKeysExist(body) ==
    /\ body.productId \in ProductIds
    /\ body.componentId \in DOMAIN components

\* createComponentRequest called with the parsed body alone
createComponentRequestNoRequester(body, requestedBy) ==
    [id |-> Len(componentRequests) + 1,
     productId |-> body.productId,
     componentId |-> body.componentId,
     requestedQuantity |-> body.requestedQuantity,
     status |-> "pending",
     requestedBy |-> NoId,
     fulfilledBy |-> NoId,
     fulfilledAt |-> Null]

\* createComponentRequest: the inserted row, with the column defaults
createComponentRequest(body, requestedBy) ==
    [id |-> Len(componentRequests) + 1,
     productId |-> body.productId,
     componentId |-> body.componentId,
     requestedQuantity |-> body.requestedQuantity,
     status |-> "pending",
     requestedBy |-> requestedBy,
     fulfilledBy |-> NoId,
     fulfilledAt |-> Null]

\* getPendingComponentRequests without its WHERE clause
IsAnyRow(row) == row.status \in {"pending", "fulfilled", "cancelled"}

\* getPendingComponentRequests excluding the cancelled rows only
IsNotCancelledRow(row) == row.status # "cancelled"

\* the WHERE clause of getPendingComponentRequests
IsPendingRow(row) == row.status = "pending"

\* getPendingComponentRequests: the ids of the rows it returns (every row
\* has its product and its component, by the foreign keys)
getPendingComponentRequests ==
    {i \in 1..Len(componentRequests) : IsPendingRow(componentRequests[i])}

\* fulfillComponentRequest setting the status alone
fulfillComponentRequestStatusOnly(requestId, fulfilledBy) ==
    [i \in 1..Len(componentRequests) |->
        IF componentRequests[i].id = requestId
        THEN [componentRequests[i] EXCEPT !.status = "fulfilled"]
        ELSE componentRequests[i]]

\* fulfillComponentRequest: UPDATE component_requests SET status, fulfilledBy,
\* fulfilledAt WHERE id = requestId
fulfillComponentRequest(requestId, fulfilledBy) ==
    [i \in 1..Len(componentRequests) |->
        IF componentRequests[i].id = requestId
        THEN [componentRequests[i] EXCEPT !.status = "fulfilled",
                                          !.fulfilledBy = fulfilledBy,
                                          !.fulfilledAt = Some(now)]
        ELSE componentRequests[i]]

\* createFulfillmentLog: the inserted row
createFulfillmentLog(productId, componentId, requestId, quantity, person) ==
    [productId |-> productId,
     componentId |-> componentId,
     requestId |-> requestId,
     quantity |-> quantity,
     inventoryPersonId |-> person]

\* createProductEvent: the inserted row
createProductEvent(productId, eventType, userId) ==
    [productId |-> productId, eventType |-> eventType, userId |-> userId]

-----------------------------------------------------------------------------
(* POST /api/inventory/request-component *)

\* the role check, the parse of the body and the insert of the row (the role
\* read is taken with the insert, as in GenerateQr)
RequestComponent(p, caller, body) ==
    /\ pc[p] = "idle"
    /\ Len(componentRequests) < MaxLedger
    /\ LET row == createComponentRequest(body, caller)
           call == [IdleLoc EXCEPT !.route = "request-component",
                                   !.userId = caller,
                                   !.productId = body.productId,
                                   !.component = body.componentId,
                                   !.quantity = body.requestedQuantity]
       IN IF getUser(caller) = NoUser \/ roleOf(caller) # "engineer"
          THEN /\ Finish(p, 403, "Engineer access required", call)
               /\ componentRequests' = componentRequests
          ELSE IF ~insertComponentRequestSchema(body) \/ ~RequestKeysExist(body)
          THEN /\ Finish(p, 400, "Failed to create component request", call)
               /\ componentRequests' = componentRequests
          ELSE /\ componentRequests' = Append(componentRequests, row)
               /\ Await(p, "rc_event", [call EXCEPT !.requestId = row.id])
    /\ UNCHANGED <<now, users, components, products, shelfLocations, qrTokens,
                   fulfillmentLogs, productEvents, activityLogs, redeemed>>

\* the insert of the timeline event, which may reject, and the answer
RequestComponentEvent(p, ok) ==
    /\ pc[p] = "rc_event"
    /\ IF ok
       THEN /\ productEvents' =
                  Append(productEvents,
                         createProductEvent(loc[p].productId,
                                            "component_requested",
                                            loc[p].userId))
            /\ Finish(p, 200, "request", loc[p])
       ELSE /\ productEvents' = productEvents
            /\ Finish(p, 400, "Failed to create component request", loc[p])
    /\ UNCHANGED <<now, users, components, products, shelfLocations, qrTokens,
                   componentRequests, fulfillmentLogs, activityLogs,
                   redeemed>>

-----------------------------------------------------------------------------
(* GET /api/inventory/component-requests *)

\* the role check and getPendingComponentRequests; the answer carries the
\* rows read
ListPending(p, caller) ==
    /\ pc[p] = "idle"
    /\ LET call == [IdleLoc EXCEPT !.route = "component-requests",
                                   !.userId = caller]
       IN IF getUser(caller) = NoUser \/ roleOf(caller) # "inventory"
          THEN Finish(p, 403, "Inventory access required", call)
          ELSE Finish(p, 200, "requests",
                      [call EXCEPT !.rows = getPendingComponentRequests])
    /\ UNCHANGED <<now, users, components, products, shelfLocations, qrTokens,
                   componentRequests, fulfillmentLogs, productEvents,
                   activityLogs, redeemed>>

-----------------------------------------------------------------------------
(* POST /api/inventory/fulfill-request *)

\* the handler without the comparison
ComponentMismatchNever(request, component) == request.componentId = NoId

\* request.componentId !== component.id
ComponentMismatch(request, component) == request.componentId # component

\* the role check, getComponentByQR, getPendingComponentRequests, the find
\* and the comparison (the reads of users and components are taken with the
\* read of the pending requests: no handler of this model writes them)
FulfillLookup(p, caller, requestId, componentQR) ==
    /\ pc[p] = "idle"
    /\ LET component == getComponentByQR(componentQR)
           found == requestId \in getPendingComponentRequests
           call == [IdleLoc EXCEPT !.route = "fulfill-request",
                                   !.userId = caller,
                                   !.requestId = requestId,
                                   !.component = component]
       IN IF getUser(caller) = NoUser \/ roleOf(caller) # "inventory"
          THEN Finish(p, 403, "Inventory access required", call)
          ELSE IF component = NoId
          THEN Finish(p, 404, "Component not found", call)
          ELSE IF ~found
          THEN Finish(p, 404, "Request not found", call)
          ELSE IF ComponentMismatch(componentRequests[requestId], component)
          THEN Finish(p, 400, "Scanned component does not match request", call)
          ELSE Await(p, "ff_update",
                     [call EXCEPT
                        !.productId = componentRequests[requestId].productId,
                        !.quantity =
                            componentRequests[requestId].requestedQuantity])
    /\ UNCHANGED <<now, users, components, products, shelfLocations, qrTokens,
                   componentRequests, fulfillmentLogs, productEvents,
                   activityLogs, redeemed>>

\* the handler with a fulfilment that takes the quantity out of the stock
FulfillUpdateTakingStock(p, ok) ==
    /\ pc[p] = "ff_update"
    /\ IF ok
       THEN /\ componentRequests' =
                  fulfillComponentRequest(loc[p].requestId, loc[p].userId)
            /\ components' =
                  [components EXCEPT ![loc[p].component].stockQuantity =
                                        @ - loc[p].quantity]
            /\ Await(p, "ff_log", loc[p])
       ELSE /\ componentRequests' = componentRequests
            /\ components' = components
            /\ Finish(p, 400, "Failed to fulfill request", loc[p])
    /\ UNCHANGED <<now, users, products, shelfLocations, qrTokens,
                   fulfillmentLogs, productEvents, activityLogs, redeemed>>

\* storage.fulfillComponentRequest(requestId, userId), which may reject
FulfillUpdate(p, ok) ==
    /\ pc[p] = "ff_update"
    /\ IF ok
       THEN /\ componentRequests' =
                  fulfillComponentRequest(loc[p].requestId, loc[p].userId)
            /\ Await(p, "ff_log", loc[p])
       ELSE /\ componentRequests' = componentRequests
            /\ Finish(p, 400, "Failed to fulfill request", loc[p])
    /\ UNCHANGED <<now, users, components, products, shelfLocations, qrTokens,
                   fulfillmentLogs, productEvents, activityLogs, redeemed>>

\* storage.createFulfillmentLog(...), which may reject, and the answer
FulfillLog(p, ok) ==
    /\ pc[p] = "ff_log"
    /\ IF ok
       THEN /\ fulfillmentLogs' =
                  Append(fulfillmentLogs,
                         createFulfillmentLog(loc[p].productId,
                                              loc[p].component,
                                              loc[p].requestId,
                                              loc[p].quantity,
                                              loc[p].userId))
            /\ Finish(p, 200, "fulfilled", loc[p])
       ELSE /\ fulfillmentLogs' = fulfillmentLogs
            /\ Finish(p, 400, "Failed to fulfill request", loc[p])
    /\ UNCHANGED <<now, users, components, products, shelfLocations, qrTokens,
                   componentRequests, productEvents, activityLogs, redeemed>>

\* pending -> cancelled, which happens outside the server
CancelRequest(requestId) ==
    /\ requestId \in 1..Len(componentRequests)
    /\ componentRequests[requestId].status = "pending"
    /\ componentRequests' =
          [componentRequests EXCEPT ![requestId].status = "cancelled"]
    /\ UNCHANGED <<now, users, components, products, shelfLocations, qrTokens,
                   fulfillmentLogs, productEvents, activityLogs, pc, loc,
                   sent, redeemed>>

-----------------------------------------------------------------------------
(* DELETE /api/admin/users/:targetUserId *)

\* createActivityLog: the inserted row
createActivityLog(userId, action, entityType, entityId) ==
    [userId |-> userId, action |-> action, entityType |-> entityType,
     entityId |-> entityId]

\* the role check, deactivateUser (an UPDATE that sets updatedAt alone and
\* reports whether it hit a row) and, on a hit, createActivityLog, which may
\* reject
DeactivateUser(p, caller, targetUserId, ok) ==
    /\ pc[p] = "idle"
    /\ Len(activityLogs) < MaxActivity
    /\ LET call == [IdleLoc EXCEPT !.route = "deactivate-user",
                                   !.userId = caller, !.user = targetUserId]
       IN IF getUser(caller) = NoUser \/ roleOf(caller) # "admin"
          THEN /\ Finish(p, 403, "Admin access required", call)
               /\ activityLogs' = activityLogs
          ELSE IF targetUserId \notin DOMAIN users
          THEN /\ Finish(p, 200, "success: false", call)
               /\ activityLogs' = activityLogs
          ELSE IF ~ok
          THEN /\ Finish(p, 400, "Failed to deactivate user", call)
               /\ activityLogs' = activityLogs
          ELSE /\ activityLogs' =
                     Append(activityLogs,
                            createActivityLog(caller, "deactivate_user",
                                              "user", targetUserId))
               /\ Finish(p, 200, "success: true", call)
    /\ UNCHANGED <<now, users, components, products, shelfLocations, qrTokens,
                   componentRequests, fulfillmentLogs, productEvents,
                   redeemed>>

-----------------------------------------------------------------------------
(* PATCH /api/engineer/products/:productId/status *)

\* the statuses the route lets through
StatusValues == {"pending", "in_progress", "completed"}

\* updateProductStatus: UPDATE products SET status WHERE id = productId
setProductStatus(productId, status) ==
    [x \in DOMAIN products |->
        IF x = productId THEN [products[x] EXCEPT !.status = status]
        ELSE products[x]]

\* the role check, the check of the status and the UPDATE of
\* updateProductStatus
UpdateProductStatus(p, caller, productId, status) ==
    /\ pc[p] = "idle"
    /\ Len(productEvents) < MaxEvents
    /\ LET call == [IdleLoc EXCEPT !.route = "product-status",
                                   !.userId = caller,
                                   !.productId = productId,
                                   !.status = status]
       IN IF getUser(caller) = NoUser \/ roleOf(caller) # "engineer"
          THEN /\ Finish(p, 403, "Engineer access required", call)
               /\ products' = products
          ELSE IF status \notin StatusValues
          THEN /\ Finish(p, 400, "Invalid status", call)
               /\ products' = products
          ELSE /\ products' = setProductStatus(productId, status)
               /\ Await(p, "ps_event", call)
    /\ UNCHANGED <<now, users, components, shelfLocations, qrTokens,
                   componentRequests, fulfillmentLogs, productEvents,
                   activityLogs, redeemed>>

\* the createProductEvent of updateProductStatus, eventType: status as any,
\* which rejects on the product_id foreign key or on its own, and the answer
UpdateProductStatusEvent(p, ok) ==
    /\ pc[p] = "ps_event"
    /\ IF ok /\ loc[p].productId \in DOMAIN products
       THEN /\ productEvents' =
                  Append(productEvents,
                         createProductEvent(loc[p].productId, loc[p].status,
                                            NoId))
            /\ Finish(p, 200, "product", loc[p])
       ELSE /\ productEvents' = productEvents
            /\ Finish(p, 400, "Failed to update product status", loc[p])
    /\ UNCHANGED <<now, users, components, products, shelfLocations, qrTokens,
                   componentRequests, fulfillmentLogs, activityLogs, redeemed>>

-----------------------------------------------------------------------------
(* POST /api/admin/assign-product *)

\* assignProductToEngineer: UPDATE products SET assignedEngineerId, status
\* WHERE id = productId
setProductEngineer(productId, engineerId) ==
    [x \in DOMAIN products |->
        IF x = productId
        THEN [products[x] EXCEPT !.assignedEngineerId = engineerId,
                                 !.status = "in_progress"]
        ELSE products[x]]

\* the role check and the UPDATE of assignProductToEngineer, which rejects
\* on the assigned_engineer_id foreign key
AssignProduct(p, caller, productId, engineerId) ==
    /\ pc[p] = "idle"
    /\ Len(productEvents) < MaxEvents
    /\ Len(activityLogs) < MaxActivity
    /\ LET call == [IdleLoc EXCEPT !.route = "assign-product",
                                   !.userId = caller,
                                   !.productId = productId,
                                   !.user = engineerId]
       IN IF getUser(caller) = NoUser \/ roleOf(caller) # "admin"
          THEN /\ Finish(p, 403, "Admin access required", call)
               /\ products' = products
          ELSE IF productId \in DOMAIN products /\ getUser(engineerId) = NoUser
          THEN /\ Finish(p, 400, "Failed to assign product", call)
               /\ products' = products
          ELSE /\ products' = setProductEngineer(productId, engineerId)
               /\ Await(p, "ap_event", call)
    /\ UNCHANGED <<now, users, components, shelfLocations, qrTokens,
                   componentRequests, fulfillmentLogs, productEvents,
                   activityLogs, redeemed>>

\* the createProductEvent of assignProductToEngineer, which rejects on the
\* product_id foreign key or on its own
AssignProductEvent(p, ok) ==
    /\ pc[p] = "ap_event"
    /\ IF ok /\ loc[p].productId \in DOMAIN products
       THEN /\ productEvents' =
                  Append(productEvents,
                         createProductEvent(loc[p].productId, "assigned",
                                            loc[p].user))
            /\ Await(p, "ap_log", loc[p])
       ELSE /\ productEvents' = productEvents
            /\ Finish(p, 400, "Failed to assign product", loc[p])
    /\ UNCHANGED <<now, users, components, products, shelfLocations, qrTokens,
                   componentRequests, fulfillmentLogs, activityLogs, redeemed>>

\* the createActivityLog of the route, which may reject, and the answer
AssignProductLog(p, ok) ==
    /\ pc[p] = "ap_log"
    /\ IF ok
       THEN /\ activityLogs' =
                  Append(activityLogs,
                         createActivityLog(loc[p].userId, "assign_product",
                                           "product", loc[p].productId))
            /\ Finish(p, 200, "product", loc[p])
       ELSE /\ activityLogs' = activityLogs
            /\ Finish(p, 400, "Failed to assign product", loc[p])
    /\ UNCHANGED <<now, users, components, products, shelfLocations, qrTokens,
                   componentRequests, fulfillmentLogs, productEvents,
                   redeemed>>

-----------------------------------------------------------------------------
(* The clock *)

Tick(d) ==
    /\ now + d <= MaxTime
    /\ now' = now + d
    /\ UNCHANGED <<users, components, products, shelfLocations, qrTokens,
                   componentRequests, fulfillmentLogs, productEvents,
                   activityLogs, pc, loc, sent, redeemed>>

-----------------------------------------------------------------------------
(* Product intake and QR scan (server/routes.ts, server/storage.ts) *)

\* the id the database gives the next products row
NewProductIds == {"prodB"}

\* `SSM-${String(Date.now()).slice(-5)}`: a string fixed by the clock alone
RepairId(t) == "SSM-" \o ToString(t)

\* createProduct: the row with the repair id as its QR data
createProduct(id) ==
    products' = products @@
        (id :> [qrCodeData |-> RepairId(now), status |-> "pending",
                assignedEngineerId |-> NoId])

\* getProductByQR: the id of the row, or none
getProductByQR(qrCode) ==
    LET hits == {x \in DOMAIN products : products[x].qrCodeData = qrCode}
    IN IF hits = {} THEN NoId ELSE CHOOSE x \in hits : TRUE

\* getShelfLocationByQR: the id of the row, or none
getShelfLocationByQR(qrCode) ==
    LET hits == {l \in DOMAIN shelfLocations :
                    shelfLocations[l].qrCode = qrCode}
    IN IF hits = {} THEN NoId ELSE CHOOSE l \in hits : TRUE

\* POST /api/inventory/products; ok is false when the body does not parse or
\* the insert throws, as it does on a repair id that is already taken
CreateProduct(p, caller, id, ok) ==
    /\ pc[p] = "idle"
    /\ id \notin DOMAIN products
    /\ LET call == [IdleLoc EXCEPT !.route = "products", !.userId = caller,
                                   !.productId = id]
       IN IF roleOf(caller) # "inventory"
          THEN /\ Finish(p, 403, "Inventory access required", call)
               /\ UNCHANGED products
          ELSE IF ~ok \/ getProductByQR(RepairId(now)) # NoId
          THEN /\ Finish(p, 400, "Failed to create product", call)
               /\ UNCHANGED products
          ELSE /\ createProduct(id)
               /\ Finish(p, 200, id, call)
    /\ UNCHANGED <<now, users, components, shelfLocations, qrTokens,
                   componentRequests, fulfillmentLogs, productEvents,
                   activityLogs, redeemed>>

\* the scan handler probing components before products when no type is given
ScanQrComponentFirst(p, qrCode, type, ok) ==
    /\ pc[p] = "idle"
    /\ LET call == [IdleLoc EXCEPT !.route = "scan-qr", !.qrCode = qrCode,
                                   !.type = type]
           answer(status, body, echo) ==
               Finish(p, status, body, [call EXCEPT !.type = echo])
           found(result) ==
               IF result = NoId
               THEN answer(404, "QR code not found", type)
               ELSE answer(200, result, IF type = "" THEN "unknown" ELSE type)
       IN IF qrCode = ""
          THEN answer(400, "QR code is required", type)
          ELSE IF ~ok
          THEN answer(400, "Failed to scan QR code", type)
          ELSE CASE type = "product" -> found(getProductByQR(qrCode))
                 [] type = "location" -> found(getShelfLocationByQR(qrCode))
                 [] type = "component" -> found(getComponentByQR(qrCode))
                 [] OTHER ->
                      IF getComponentByQR(qrCode) # NoId
                      THEN found(getComponentByQR(qrCode))
                      ELSE IF getProductByQR(qrCode) # NoId
                      THEN found(getProductByQR(qrCode))
                      ELSE Await(p, "scan_location", call)
    /\ UNCHANGED <<now, users, components, products, shelfLocations, qrTokens,
                   componentRequests, fulfillmentLogs, productEvents,
                   activityLogs, redeemed>>

\* POST /api/inventory/scan-qr up to its first lookup; type "" is a body
\* without type, ok is false when the lookup throws
ScanQr(p, qrCode, type, ok) ==
    /\ pc[p] = "idle"
    /\ LET call == [IdleLoc EXCEPT !.route = "scan-qr", !.qrCode = qrCode,
                                   !.type = type]
           answer(status, body, echo) ==
               Finish(p, status, body, [call EXCEPT !.type = echo])
           found(result) ==
               IF result = NoId
               THEN answer(404, "QR code not found", type)
               ELSE answer(200, result, IF type = "" THEN "unknown" ELSE type)
       IN IF qrCode = ""
          THEN answer(400, "QR code is required", type)
          ELSE IF ~ok
          THEN answer(400, "Failed to scan QR code", type)
          ELSE CASE type = "product" -> found(getProductByQR(qrCode))
                 [] type = "location" -> found(getShelfLocationByQR(qrCode))
                 [] type = "component" -> found(getComponentByQR(qrCode))
                 [] OTHER ->
                      IF getProductByQR(qrCode) # NoId
                      THEN found(getProductByQR(qrCode))
                      ELSE Await(p, "scan_location", call)
    /\ UNCHANGED <<now, users, components, products, shelfLocations, qrTokens,
                   componentRequests, fulfillmentLogs, productEvents,
                   activityLogs, redeemed>>

\* the default case after a product lookup that found nothing:
\* || await storage.getShelfLocationByQR(qrCode)
ScanLocation(p, ok) ==
    /\ pc[p] = "scan_location"
    /\ LET call == loc[p]
           result == getShelfLocationByQR(call.qrCode)
       IN IF ~ok
          THEN Finish(p, 400, "Failed to scan QR code", call)
          ELSE IF result # NoId
          THEN Finish(p, 200, result,
                      [call EXCEPT !.type = IF @ = "" THEN "unknown" ELSE @])
          ELSE Await(p, "scan_component", call)
    /\ UNCHANGED <<now, users, components, products, shelfLocations, qrTokens,
                   componentRequests, fulfillmentLogs, productEvents,
                   activityLogs, redeemed>>

\* the default case after a location lookup that found nothing:
\* || await storage.getComponentByQR(qrCode), then the answer
ScanComponent(p, ok) ==
    /\ pc[p] = "scan_component"
    /\ LET call == loc[p]
           result == getComponentByQR(call.qrCode)
       IN IF ~ok
          THEN Finish(p, 400, "Failed to scan QR code", call)
          ELSE IF result # NoId
          THEN Finish(p, 200, result,
                      [call EXCEPT !.type = IF @ = "" THEN "unknown" ELSE @])
          ELSE Finish(p, 404, "QR code not found", call)
    /\ UNCHANGED <<now, users, components, products, shelfLocations, qrTokens,
                   componentRequests, fulfillmentLogs, productEvents,
                   activityLogs, redeemed>>

-----------------------------------------------------------------------------

Init ==
    /\ now = 0
    /\ users = SeedUsers
    /\ components = SeedComponents
    /\ products = SeedProducts
    /\ shelfLocations = SeedLocations
    /\ qrTokens = <<>>
    /\ componentRequests = <<>>
    /\ fulfillmentLogs = <<>>
    /\ productEvents = <<>>
    /\ activityLogs = <<>>
    /\ pc = [p \in Procs |-> "idle"]
    /\ loc = [p \in Procs |-> IdleLoc]
    /\ sent = NoResponse
    /\ redeemed = [t \in TokenStrings |-> 0]

\* the token service: issue, redeem and the clock
TokenNext ==
    \/ \E p \in Procs, token \in TokenStrings \cup {NoToken} :
          QrLoginLookup(p, token)
    \/ \E p \in Procs, loginOk \in BOOLEAN : QrLoginMarkUsed(p, loginOk)
    \/ \E p \in Procs, caller \in {"adm", "eng"},
          target \in {"eng", "inv1", UnknownUserId, NoId} :
          Len(qrTokens) < MaxRaced /\ GenerateQr(p, caller, target)
    \/ \E d \in TickSteps : Tick(d)

TokenSpec == Init /\ [][TokenNext]_vars

\* the token service with several tokens in the table: the admin issues
\* tokens for two users, and the tokens issued are redeemed within their
\* lifetime
IssueNext ==
    \/ \E p \in Procs, token \in TokenStrings \ {UnknownToken} :
          QrLoginLookup(p, token)
    \/ \E p \in Procs : QrLoginMarkUsed(p, TRUE)
    \/ \E p \in Procs, target \in {"eng", "inv1"} :
          GenerateQr(p, "adm", target)

IssueSpec == Init /\ [][IssueNext]_vars

\* the request bodies a client posts: well-formed ones with these
\* quantities, one naming no product, one with a quantity that is no number
RequestBodies(quantities) ==
    [productId : ProductIds, componentId : ComponentIds,
     quantityType : {"number"}, requestedQuantity : quantities]
    \cup
    [productId : {UnknownProductId}, componentId : {"compA"},
     quantityType : {"number"}, requestedQuantity : {1}]
    \cup
    [productId : ProductIds, componentId : {"compA"},
     quantityType : {"string"}, requestedQuantity : {0}]

\* the request ledger and the fulfilment engine
FulfillNext ==
    \/ \E p \in Procs, caller \in {"eng", "inv1"},
          body \in RequestBodies({2}) :
          /\ Len(componentRequests) < MaxRequests
          /\ RequestComponent(p, caller, body)
    \/ \E p \in Procs, ok \in BOOLEAN : RequestComponentEvent(p, ok)
    \/ \E p \in Procs, caller \in {"inv1", "inv2", "eng"},
          requestId \in 0..MaxRequests,
          componentQR \in {"QR-compA", "QR-compB", UnknownQR} :
          FulfillLookup(p, caller, requestId, componentQR)
    \/ \E p \in Procs, ok \in BOOLEAN : FulfillUpdate(p, ok)
    \/ \E p \in Procs, ok \in BOOLEAN : FulfillLog(p, ok)
    \/ \E requestId \in 1..MaxRequests : CancelRequest(requestId)
    \/ \E d \in TickSteps : Tick(d)

FulfillSpec == Init /\ [][FulfillNext]_vars

\* the request ledger alone: creation with every kind of quantity
LedgerNext ==
    \/ \E p \in Procs, caller \in {"eng", "inv1"},
          body \in RequestBodies({-1, 0, 1, 2}) :
          RequestComponent(p, caller, body)
    \/ \E p \in Procs, ok \in BOOLEAN : RequestComponentEvent(p, ok)
    \/ \E d \in TickSteps : Tick(d)

LedgerSpec == Init /\ [][LedgerNext]_vars

\* the lifetime of a token: issue and redeem under a finer clock
WindowNext ==
    \/ \E p \in Procs :
          Len(qrTokens) < MaxRaced /\ GenerateQr(p, "adm", "eng")
    \/ \E p \in Procs, k \in 1..MaxRaced : QrLoginLookup(p, TokenString(k))
    \/ \E p \in Procs : QrLoginMarkUsed(p, TRUE)
    \/ \E d \in FineSteps : Tick(d)

WindowSpec == Init /\ [][WindowNext]_vars

\* the pending list read while requests are created, fulfilled and cancelled
ListNext ==
    \/ \E p \in Procs, body \in RequestBodies({2}) :
          RequestComponent(p, "eng", body)
    \/ \E p \in Procs : RequestComponentEvent(p, TRUE)
    \/ \E p \in Procs, requestId \in 1..MaxLedger,
          componentQR \in {"QR-compA", "QR-compB"} :
          FulfillLookup(p, "inv1", requestId, componentQR)
    \/ \E p \in Procs : FulfillUpdate(p, TRUE)
    \/ \E p \in Procs : FulfillLog(p, TRUE)
    \/ \E requestId \in 1..MaxLedger : CancelRequest(requestId)
    \/ \E p \in Procs, caller \in {"inv1", "eng"} : ListPending(p, caller)

ListSpec == Init /\ [][ListNext]_vars

\* the timeline of a product: request creation, assignment, status updates
ProductNext ==
    \/ \E p \in Procs, body \in RequestBodies({2}) :
          /\ Len(componentRequests) < MaxRequests
          /\ body.componentId = "compA"
          /\ RequestComponent(p, "eng", body)
    \/ \E p \in Procs, ok \in BOOLEAN : RequestComponentEvent(p, ok)
    \/ \E p \in Procs, caller \in {"adm", "eng"},
          productId \in {"prodA", UnknownProductId},
          engineerId \in {"eng", UnknownUserId} :
          AssignProduct(p, caller, productId, engineerId)
    \/ \E p \in Procs, ok \in BOOLEAN : AssignProductEvent(p, ok)
    \/ \E p \in Procs, ok \in BOOLEAN : AssignProductLog(p, ok)
    \/ \E p \in Procs, caller \in {"eng", "inv1"},
          productId \in {"prodA", UnknownProductId},
          status \in StatusValues \cup {"shipped"} :
          UpdateProductStatus(p, caller, productId, status)
    \/ \E p \in Procs, ok \in BOOLEAN : UpdateProductStatusEvent(p, ok)

ProductSpec == Init /\ [][ProductNext]_vars

\* the three gated routes called by users of every role, by a user without
\* a role and by one that has no row
GateNext ==
    \/ \E p \in Procs, caller \in UserIds \cup {UnknownUserId} :
          Len(qrTokens) < MaxRaced /\ GenerateQr(p, caller, "eng")
    \/ \E p \in Procs, caller \in UserIds \cup {UnknownUserId},
          body \in RequestBodies({2}) :
          /\ Len(componentRequests) < MaxRequests
          /\ body.componentId = "compA"
          /\ RequestComponent(p, caller, body)
    \/ \E p \in Procs : RequestComponentEvent(p, TRUE)
    \/ \E p \in Procs, caller \in UserIds \cup {UnknownUserId} :
          FulfillLookup(p, caller, 1, "QR-compA")
    \/ \E p \in Procs : FulfillUpdate(p, TRUE)
    \/ \E p \in Procs : FulfillLog(p, TRUE)

GateSpec == Init /\ [][GateNext]_vars

\* every table written: one token, one request, the admin's own route
AuditNext ==
    \/ \E p \in Procs : Len(qrTokens) < MaxRaced /\ GenerateQr(p, "adm", "eng")
    \/ \E p \in Procs : QrLoginLookup(p, TokenString(1))
    \/ \E p \in Procs : QrLoginMarkUsed(p, TRUE)
    \/ \E p \in Procs, body \in RequestBodies({2}) :
          /\ Len(componentRequests) < MaxRequests
          /\ body.componentId = "compA"
          /\ RequestComponent(p, "eng", body)
    \/ \E p \in Procs, ok \in BOOLEAN : RequestComponentEvent(p, ok)
    \/ \E p \in Procs, caller \in {"inv1", "inv2"} :
          FulfillLookup(p, caller, 1, "QR-compA")
    \/ \E p \in Procs : FulfillUpdate(p, TRUE)
    \/ \E p \in Procs, ok \in BOOLEAN : FulfillLog(p, ok)
    \/ \E p \in Procs, target \in {"inv1", UnknownUserId}, ok \in BOOLEAN :
          DeactivateUser(p, "adm", target, ok)
    \/ \E d \in TickSteps : Tick(d)

AuditSpec == Init /\ [][AuditNext]_vars

\* the QR data a component or a shelf location can carry: free text, which
\* may spell a repair id
ScanCodes == {"SSM-prodA", RepairId(0), "QR-1"}

\* the type a scan can name: the three known ones, none, and any other
ScanTypes == {"product", "location", "component", "", "pallet"}

\* the store with a component and a shelf location under any QR data
ScanInit ==
    /\ now = 0
    /\ users = SeedUsers
    /\ \E code \in ScanCodes :
          components = [SeedComponents EXCEPT !["compA"].qrCode = code]
    /\ products = SeedProducts
    /\ \E code \in [LocationIds -> ScanCodes] :
          shelfLocations = [l \in LocationIds |-> [qrCode |-> code[l]]]
    /\ qrTokens = <<>>
    /\ componentRequests = <<>>
    /\ fulfillmentLogs = <<>>
    /\ productEvents = <<>>
    /\ activityLogs = <<>>
    /\ pc = [p \in Procs |-> "idle"]
    /\ loc = [p \in Procs |-> IdleLoc]
    /\ sent = NoResponse
    /\ redeemed = [t \in TokenStrings |-> 0]

\* one scan at a time, of every code under every type, beside product
\* intake: scans write nothing, so they meet only the intake
ScanNext ==
    \/ \E qrCode \in ScanCodes \cup {"", UnknownQR}, type \in ScanTypes,
          ok \in BOOLEAN : ScanQr(1, qrCode, type, ok)
    \/ \E ok \in BOOLEAN : ScanLocation(1, ok)
    \/ \E ok \in BOOLEAN : ScanComponent(1, ok)
    \/ \E p \in Procs \ {1}, caller \in {"inv1", "eng"},
          id \in NewProductIds, ok \in BOOLEAN :
          CreateProduct(p, caller, id, ok)

ScanSpec == ScanInit /\ [][ScanNext]_vars

-----------------------------------------------------------------------------
(* Readings of the state used by the properties below *)

\* the rows of a table are still there, unchanged and in place
IsPrefix(before, after) ==
    /\ Len(before) <= Len(after)
    /\ SubSeq(after, 1, Len(before)) = before

\* the rows of qr_tokens holding this token string
TokenRows(token) == {i \in 1..Len(qrTokens) : qrTokens[i].token = token}

\* the rows of fulfillment_logs written for this request
LogsOf(requestId) ==
    {i \in 1..Len(fulfillmentLogs) : fulfillmentLogs[i].requestId = requestId}

RequestIds == 1..Len(componentRequests)

\* the error categories of the responses the handlers send
ErrorKind(response) ==
    CASE response.status = 404 -> "NotFound"
      [] response.status = 401 -> "InvalidOrExpired"
      [] response.status = 403 -> "Forbidden"
      [] response.status = 409 -> "Conflict"
      [] response.body = "Scanned component does not match request" -> "Conflict"
      [] response.status = 400 -> "ValidationError"
      [] response.status = 500 -> "Failure"
      [] OTHER -> "none"

InvalidOrExpired(token) ==
    Response(401, "Invalid or expired QR token",
             [IdleLoc EXCEPT !.route = "qr-login", !.token = token])

-----------------------------------------------------------------------------
(* C1: at-most-once redemption.  However the store reads and writes of     *)
(* concurrent redeem calls of one token interleave, at most one of the     *)
(* calls returns the owning user.                                          *)
C1_AtMostOnceRedemption ==
    \A t \in TokenStrings : redeemed[t] <= 1

(* C2: at-most-once fulfilment.  However concurrent fulfil calls of one    *)
(* pending request interleave, the request gets at most one               *)
(* FulfillmentLog row.                                                     *)
C2_AtMostOnceFulfilment ==
    \A r \in RequestIds : Cardinality(LogsOf(r)) <= 1

(* C3: fulfilment atomicity.  In every state another operation can         *)
(* observe, a request has status fulfilled if and only if a                *)
(* FulfillmentLog row with its id exists.                                  *)
C3_FulfilmentAtomic ==
    \A r \in RequestIds :
        componentRequests[r].status = "fulfilled" <=> LogsOf(r) # {}

(* C4: expiry enforcement.  A redeem of a never-used token whose           *)
(* expiresAt is in the past fails with the invalid-or-expired answer, the  *)
(* call ends there and it leaves qr_tokens (the used field) as it was.     *)
C4_ExpiredRedeemFails ==
    [][\A p \in Procs, t \in TokenStrings :
          ( /\ QrLoginLookup(p, t)
            /\ \E i \in TokenRows(t) :
                  qrTokens[i].expiresAt < now /\ qrTokens[i].used = Null )
          => /\ sent' = InvalidOrExpired(t)
             /\ pc'[p] = "idle"
             /\ qrTokens' = qrTokens]_vars

C4_Witness ==
    /\ sent.status = 401
    /\ sent.route = "qr-login"
    /\ \E i \in TokenRows(sent.token) :
          qrTokens[i].expiresAt < now /\ qrTokens[i].used = Null

(* C5: round trip.  A redeem of an unused token at the instant it was      *)
(* issued finds the user the token was issued for, and the call answers    *)
(* with that user.                                                         *)
C5_RoundTrip ==
    [][\A p \in Procs :
          /\ \A t \in TokenStrings :
                ( /\ QrLoginLookup(p, t)
                  /\ \E i \in TokenRows(t) :
                        qrTokens[i].createdAt = now /\ qrTokens[i].used = Null )
                => /\ pc'[p] = "ql_mark"
                   /\ \A i \in TokenRows(t) : loc'[p].user = qrTokens[i].userId
          /\ QrLoginMarkUsed(p, TRUE)
                => /\ sent'.status = 200
                   /\ \A i \in TokenRows(loc[p].token) :
                         sent'.body = qrTokens[i].userId]_vars

C5_Witness ==
    /\ sent.status = 200
    /\ sent.route = "qr-login"
    /\ \E i \in TokenRows(sent.token) :
          /\ qrTokens[i].userId = sent.body
          /\ qrTokens[i].used = Some(qrTokens[i].createdAt)
          /\ now = qrTokens[i].createdAt

(* C6: single use in sequence.  Once a redeem of a token has returned its  *)
(* user, every later redeem of the token gets the invalid-or-expired       *)
(* answer, before and after expiresAt, and changes nothing.                *)
C6_SingleUse ==
    [][\A p \in Procs, t \in TokenStrings :
          (QrLoginLookup(p, t) /\ redeemed[t] >= 1)
          => /\ sent' = InvalidOrExpired(t)
             /\ pc'[p] = "idle"
             /\ qrTokens' = qrTokens]_vars

C6_Witness ==
    /\ sent = InvalidOrExpired(sent.token)
    /\ redeemed[sent.token] >= 1
    /\ \A q \in Procs : pc[q] = "idle"
    /\ \E i \in TokenRows(sent.token) : qrTokens[i].expiresAt > now

(* C7: mismatch rejection.  A fulfil call of an inventory user for a       *)
(* pending request with a scanned component that is not the request's      *)
(* answers 'Scanned component does not match request' (a Conflict), ends   *)
(* there, and leaves the request (pending, fulfilledBy and fulfilledAt     *)
(* unset) and the fulfilment log as they were.                             *)
C7_MismatchRejected ==
    [][\A p \in Procs, caller \in {"inv1", "inv2"}, r \in RequestIds,
          c \in DOMAIN components :
          ( /\ FulfillLookup(p, caller, r, components[c].qrCode)
            /\ componentRequests[r].status = "pending"
            /\ componentRequests[r].componentId # c )
          => /\ sent'.status = 400
             /\ sent'.body = "Scanned component does not match request"
             /\ ErrorKind(sent') = "Conflict"
             /\ pc'[p] = "idle"
             /\ componentRequests' = componentRequests
             /\ componentRequests'[r].status = "pending"
             /\ componentRequests'[r].fulfilledBy = NoId
             /\ componentRequests'[r].fulfilledAt = Null
             /\ fulfillmentLogs' = fulfillmentLogs]_vars

C7_Witness ==
    /\ sent.body = "Scanned component does not match request"
    /\ sent.route = "fulfill-request"
    /\ sent.requestId \in RequestIds
    /\ componentRequests[sent.requestId].status = "pending"
    /\ LogsOf(sent.requestId) = {}

C9_QuantityPositive ==
    \A r \in RequestIds : componentRequests[r].requestedQuantity > 0

(* C10: the used field of a token is written at most once.  Once it holds  *)
(* a timestamp, no step gives it another value or resets it to null.       *)
C10_UsedWrittenOnce ==
    [][\A i \in 1..Len(qrTokens) :
          qrTokens[i].used # Null => qrTokens'[i].used = qrTokens[i].used]_vars

(* C11: request field invariant.  In every state, a ComponentRequest has   *)
(* fulfilledBy and fulfilledAt both set when its status is fulfilled and   *)
(* both null otherwise.                                                    *)
C11_FieldInvariant ==
    \A r \in RequestIds :
        /\ componentRequests[r].status = "fulfilled"
              <=> componentRequests[r].fulfilledBy # NoId
        /\ componentRequests[r].status = "fulfilled"
              <=> componentRequests[r].fulfilledAt # Null

C11_Witness ==
    \E r \in RequestIds :
        /\ componentRequests[r].status = "fulfilled"
        /\ componentRequests[r].fulfilledBy \in {"inv1", "inv2"}
        /\ componentRequests[r].fulfilledAt # Null

(* C12: terminal statuses.  Once the status of a ComponentRequest is       *)
(* fulfilled or cancelled, no step changes it; the only changes are        *)
(* pending -> fulfilled and pending -> cancelled.                          *)
C12_TerminalStatuses ==
    [][\A r \in RequestIds :
          /\ componentRequests[r].status # "pending"
                => componentRequests'[r].status = componentRequests[r].status
          /\ componentRequests'[r].status # componentRequests[r].status
                => componentRequests'[r].status \in {"fulfilled", "cancelled"}
      ]_vars

(* C13: uniform redeem failure.  A redeem of a non-empty token string that *)
(* has no row, or whose row is expired, or whose row is used, ends with    *)
(* the same answer in all three cases, 401 'Invalid or expired QR token',  *)
(* and writes nothing.                                                     *)
C13_UniformFailure ==
    [][\A p \in Procs, t \in TokenStrings :
          ( /\ QrLoginLookup(p, t)
            /\ \/ TokenRows(t) = {}
               \/ \E i \in TokenRows(t) : qrTokens[i].expiresAt <= now
               \/ \E i \in TokenRows(t) : qrTokens[i].used # Null )
          => /\ sent'.status = 401
             /\ sent'.body = "Invalid or expired QR token"
             /\ ErrorKind(sent') = "InvalidOrExpired"
             /\ pc'[p] = "idle"
             /\ qrTokens' = qrTokens
             /\ redeemed' = redeemed]_vars

C13_Witness ==
    /\ sent.status = 401
    /\ sent.body = "Invalid or expired QR token"
    /\ sent.token # NoToken
    /\ TokenRows(sent.token) = {}
    /\ \E i \in 1..Len(qrTokens) : qrTokens[i].used # Null

(* C14: audit isolation.  A create-request call whose ComponentRequest row *)
(* was inserted is answered as a success, also when the insert of the      *)
(* 'component_requested' product event that follows it fails.              *)
C14_AuditIsolation ==
    ( /\ sent.route = "request-component"
      /\ sent.requestId \in RequestIds )
    => sent.status = 200

(* C15: token independence.  An issue call appends one row whose token     *)
(* string no existing row holds and leaves the existing rows as they are;  *)
(* a redeem marks the rows of its own token string alone, and every other  *)
(* token stays redeemable or not as it was.                                *)
C15_TokenIndependence ==
    [][\A p \in Procs :
          /\ \A target \in UserIds :
                ( /\ GenerateQr(p, "adm", target)
                  /\ qrTokens' # qrTokens )
                => /\ Len(qrTokens') = Len(qrTokens) + 1
                   /\ SubSeq(qrTokens', 1, Len(qrTokens)) = qrTokens
                   /\ TokenRows(qrTokens'[Len(qrTokens')].token) = {}
                   /\ qrTokens'[Len(qrTokens')].used = Null
          /\ QrLoginMarkUsed(p, TRUE)
                => /\ Len(qrTokens') = Len(qrTokens)
                   /\ \A i \in 1..Len(qrTokens) :
                         qrTokens[i].token # loc[p].token
                         => qrTokens'[i] = qrTokens[i]
                   /\ \A t \in TokenStrings \ {loc[p].token} :
                         getUserByQRToken(t)' = getUserByQRToken(t)]_vars

C15_Witness ==
    /\ \A q \in Procs : pc[q] = "idle"
    /\ \E i, j \in 1..Len(qrTokens) :
          /\ i # j
          /\ qrTokens[i].userId = qrTokens[j].userId
          /\ qrTokens[i].used # Null
          /\ redeemed[qrTokens[i].token] = 1
          /\ qrTokens[j].used = Null
          /\ getUserByQRToken(qrTokens[j].token) = qrTokens[j].userId

(* C16: fulfilment leaves stock untouched.  No step of a fulfil call or of *)
(* a create-request call changes the stockQuantity of any component, and   *)
(* a well-formed request of an engineer is inserted also when its quantity *)
(* exceeds the stock of the component.                                     *)
C16_StockUntouched ==
    [][/\ \A c \in DOMAIN components :
             components'[c].stockQuantity = components[c].stockQuantity
       /\ \A p \in Procs, body \in RequestBodies({2}) :
             ( /\ RequestComponent(p, "eng", body)
               /\ insertComponentRequestSchema(body)
               /\ RequestKeysExist(body)
               /\ body.requestedQuantity
                     > components[body.componentId].stockQuantity )
             => /\ Len(componentRequests') = Len(componentRequests) + 1
                /\ componentRequests'[Len(componentRequests')].status = "pending"
      ]_vars

C16_Witness ==
    /\ sent.route = "fulfill-request"
    /\ sent.status = 200
    /\ sent.requestId \in RequestIds
    /\ componentRequests[sent.requestId].status = "fulfilled"
    /\ LogsOf(sent.requestId) # {}
    /\ componentRequests[sent.requestId].requestedQuantity
          > components[componentRequests[sent.requestId].componentId].stockQuantity
    /\ components = SeedComponents

(* C17: fulfilment is recorded on the timeline.  Once a fulfil call has    *)
(* answered with success and no handler is running, product_events holds   *)
(* an entry for the product of the request other than the                  *)
(* 'component_requested' entry of its creation.                            *)
C17_FulfilmentOnTimeline ==
    ( /\ sent.route = "fulfill-request"
      /\ sent.status = 200
      /\ \A q \in Procs : pc[q] = "idle" )
    => \E i \in 1..Len(productEvents) :
          /\ productEvents[i].productId
                = componentRequests[sent.requestId].productId
          /\ productEvents[i].eventType # "component_requested"

(* C18: append-only stores.  No step deletes a row of qr_tokens,           *)
(* fulfillment_logs, product_events or activity_logs, no step changes a    *)
(* row of the last three, and a row of qr_tokens changes only in its used  *)
(* field, which only the UPDATE of a redeem writes.                        *)
C18_AppendOnly ==
    [][/\ IsPrefix(fulfillmentLogs, fulfillmentLogs')
       /\ IsPrefix(productEvents, productEvents')
       /\ IsPrefix(activityLogs, activityLogs')
       /\ Len(qrTokens) <= Len(qrTokens')
       /\ \A i \in 1..Len(qrTokens) :
             \/ qrTokens'[i] = qrTokens[i]
             \/ /\ qrTokens'[i] = [qrTokens[i] EXCEPT !.used = Some(now)]
                /\ \E p \in Procs :
                      pc[p] = "ql_mark" /\ pc'[p] = "idle"
                      /\ loc[p].token = qrTokens[i].token]_vars

C18_Witness ==
    /\ \E i \in 1..Len(qrTokens) : qrTokens[i].used # Null
    /\ Len(fulfillmentLogs) >= 2
    /\ Len(productEvents) >= 1
    /\ Len(activityLogs) >= 2
    /\ \A q \in Procs : pc[q] = "idle"

(* C19: redemption window.  A token issued at time t gets expiresAt =      *)
(* t + 15, and a redeem of a token that has a row finds its user if and    *)
(* only if the row is unused and now < expiresAt; at now = expiresAt and   *)
(* later it fails.                                                         *)
C19_RedemptionWindow ==
    [][\A p \in Procs :
          /\ \A target \in UserIds :
                ( /\ GenerateQr(p, "adm", target)
                  /\ qrTokens' # qrTokens )
                => /\ qrTokens'[Len(qrTokens')].createdAt = now
                   /\ qrTokens'[Len(qrTokens')].expiresAt = now + 15
          /\ \A t \in TokenStrings :
                ( /\ QrLoginLookup(p, t)
                  /\ TokenRows(t) # {} )
                => ( ( /\ pc'[p] = "ql_mark"
                       /\ \A i \in TokenRows(t) :
                             loc'[p].user = qrTokens[i].userId )
                     <=> \E i \in TokenRows(t) :
                            /\ qrTokens[i].used = Null
                            /\ now < qrTokens[i].expiresAt )
                   /\ ( sent' = InvalidOrExpired(t)
                        <=> \A i \in TokenRows(t) :
                               \/ qrTokens[i].used # Null
                               \/ now >= qrTokens[i].expiresAt )]_vars

C19_Witness ==
    /\ sent = InvalidOrExpired(sent.token)
    /\ \E i \in TokenRows(sent.token) :
          /\ qrTokens[i].used = Null
          /\ qrTokens[i].expiresAt = now
          /\ qrTokens[i].createdAt = now - 15

(* C20: fulfilment log content.  In every state, every FulfillmentLog row  *)
(* names a request that has status fulfilled, carries that request's       *)
(* productId, componentId and requestedQuantity, and its inventoryPersonId *)
(* is the request's fulfilledBy.                                           *)
C20_LogMatchesRequest ==
    \A i \in 1..Len(fulfillmentLogs) :
        LET log == fulfillmentLogs[i]
        IN /\ log.requestId \in RequestIds
           /\ componentRequests[log.requestId].status = "fulfilled"
           /\ log.productId = componentRequests[log.requestId].productId
           /\ log.componentId = componentRequests[log.requestId].componentId
           /\ log.quantity = componentRequests[log.requestId].requestedQuantity
           /\ log.inventoryPersonId
                 = componentRequests[log.requestId].fulfilledBy

(* C21: fulfil precondition failures.  A fulfil call of an inventory user  *)
(* whose scanned code is the qrCode of no component answers 404            *)
(* 'Component not found', whatever the requestId; one whose code is a      *)
(* component's and whose requestId is the id of no request answers 404     *)
(* 'Request not found'; both end there and leave component_requests and    *)
(* fulfillment_logs as they were.                                          *)
C21_PreconditionFailures ==
    [][\A p \in Procs, caller \in {"inv1", "inv2"}, r \in 0..MaxLedger,
          qr \in {components[c].qrCode : c \in DOMAIN components}
                    \cup {UnknownQR} :
          ( /\ FulfillLookup(p, caller, r, qr)
            /\ \/ \A c \in DOMAIN components : components[c].qrCode # qr
               \/ r \notin RequestIds )
          => /\ sent'.status = 404
             /\ ErrorKind(sent') = "NotFound"
             /\ sent'.body =
                   IF \A c \in DOMAIN components : components[c].qrCode # qr
                   THEN "Component not found"
                   ELSE "Request not found"
             /\ pc'[p] = "idle"
             /\ componentRequests' = componentRequests
             /\ fulfillmentLogs' = fulfillmentLogs]_vars

C21_Witness ==
    /\ sent.route = "fulfill-request"
    /\ sent.status = 404
    /\ sent.body = "Component not found"
    /\ sent.requestId \notin RequestIds
    /\ \E r \in RequestIds : componentRequests[r].status = "pending"

(* C22: request creation.  The row a create-request call inserts has       *)
(* status pending, fulfilledBy and fulfilledAt null, requestedBy the       *)
(* caller and the product, component and quantity of the body; the call    *)
(* leaves every other request as it was; and after the insert the call     *)
(* appends one product event 'component_requested' for the product of the  *)
(* request and answers with success.                                       *)
C22_RequestCreation ==
    [][\A p \in Procs :
          /\ \A caller \in UserIds, body \in RequestBodies({-1, 0, 1, 2}) :
                ( /\ RequestComponent(p, caller, body)
                  /\ componentRequests' # componentRequests )
                => /\ Len(componentRequests') = Len(componentRequests) + 1
                   /\ IsPrefix(componentRequests, componentRequests')
                   /\ LET row == componentRequests'[Len(componentRequests')]
                      IN /\ row.status = "pending"
                         /\ row.fulfilledBy = NoId
                         /\ row.fulfilledAt = Null
                         /\ row.requestedBy = caller
                         /\ row.productId = body.productId
                         /\ row.componentId = body.componentId
                         /\ row.requestedQuantity = body.requestedQuantity
                   /\ productEvents' = productEvents
                   /\ pc'[p] = "rc_event"
          /\ RequestComponentEvent(p, TRUE)
                => /\ loc[p].requestId \in RequestIds
                   /\ componentRequests' = componentRequests
                   /\ Len(productEvents') = Len(productEvents) + 1
                   /\ IsPrefix(productEvents, productEvents')
                   /\ LET event == productEvents'[Len(productEvents')]
                          row == componentRequests[loc[p].requestId]
                      IN /\ event.eventType = "component_requested"
                         /\ event.productId = row.productId
                         /\ event.userId = row.requestedBy
                   /\ sent'.status = 200
                   /\ sent'.requestId = loc[p].requestId]_vars

C22_Witness ==
    /\ Len(componentRequests) = 2
    /\ \A r \in RequestIds :
          /\ componentRequests[r].status = "pending"
          /\ componentRequests[r].requestedBy = "eng"
    /\ componentRequests[1].componentId # componentRequests[2].componentId
    /\ Len(productEvents) = 2
    /\ sent.route = "request-component"
    /\ sent.status = 200
    /\ sent.requestId = 2
    /\ \A q \in Procs : pc[q] = "idle"

(* C23: listPending.  The pending list an inventory user reads holds       *)
(* exactly the requests whose status is pending at the read: none that is  *)
(* fulfilled or cancelled, every one that is pending; the read changes no  *)
(* row.                                                                    *)
C23_ListPending ==
    [][\A p \in Procs, caller \in {"inv1", "inv2"} :
          ListPending(p, caller)
          => /\ sent'.status = 200
             /\ sent'.rows =
                   {r \in RequestIds : componentRequests[r].status = "pending"}
             /\ componentRequests' = componentRequests
             /\ fulfillmentLogs' = fulfillmentLogs]_vars

C23_Witness ==
    /\ sent.route = "component-requests"
    /\ sent.status = 200
    /\ \E r, q \in RequestIds :
          /\ componentRequests[r].status = "fulfilled"
          /\ LogsOf(r) # {}
          /\ componentRequests[q].status = "pending"
          /\ sent.rows = {q}
    /\ \A q \in Procs : pc[q] = "idle"

(* C24: event type invariant.  In every state every row of product_events  *)
(* has an eventType of the lifecycle enum.                                 *)
C24_EventTypes ==
    \A i \in 1..Len(productEvents) :
        productEvents[i].eventType
            \in {"received", "assigned", "component_requested",
                 "component_received", "in_progress", "completed"}

(* C25: fulfilment fields are written once.  Once fulfilledBy and          *)
(* fulfilledAt of a request are set, no step gives either another value.   *)
C25_FulfilledWrittenOnce ==
    [][\A r \in RequestIds :
          componentRequests[r].fulfilledBy # NoId
          => /\ componentRequests'[r].fulfilledBy
                   = componentRequests[r].fulfilledBy
             /\ componentRequests'[r].fulfilledAt
                   = componentRequests[r].fulfilledAt]_vars

(* C26: a failed redeem has no effect.  A validateAndUseQRToken call whose *)
(* lookup finds no unexpired, unused row of the token returns undefined    *)
(* without running its UPDATE: every row of qr_tokens, the used field of   *)
(* each included, is as before.                                            *)
C26_FailedRedeemNoEffect ==
    [][\A p \in Procs, t \in TokenStrings :
          ( /\ QrLoginLookup(p, t)
            /\ \A i \in TokenRows(t) :
                  qrTokens[i].used # Null \/ qrTokens[i].expiresAt <= now )
          => /\ qrTokens' = qrTokens
             /\ \A i \in 1..Len(qrTokens) : qrTokens'[i].used = qrTokens[i].used
             /\ redeemed' = redeemed
             /\ pc'[p] # "ql_mark"]_vars

C26_Witness ==
    /\ sent = InvalidOrExpired(sent.token)
    /\ \A q \in Procs : pc[q] = "idle"
    /\ \E i \in TokenRows(sent.token) :
          /\ qrTokens[i].used # Null
          /\ qrTokens[i].used # Some(now)
          /\ redeemed[sent.token] = 1

(* C27: session follows consumption.  The qr-login route answers with a    *)
(* session (200 and the user) only in the step that has set the used field *)
(* of the presented token, and the user is the owner of that token; a call *)
(* whose token is unknown, expired or used when the call looks it up ends  *)
(* with 401 and no session; and when req.login fails the call answers 500  *)
(* and the token is used all the same.                                     *)
C27_SessionFollowsConsumption ==
    [][/\ ( /\ sent' # sent
            /\ sent'.route = "qr-login"
            /\ sent'.status = 200 )
          => /\ \E p \in Procs : pc[p] = "ql_mark" /\ pc'[p] = "idle"
             /\ TokenRows(sent'.token) # {}
             /\ \A i \in TokenRows(sent'.token) :
                   /\ qrTokens'[i].used # Null
                   /\ qrTokens'[i].userId = sent'.body
       /\ \A p \in Procs, t \in TokenStrings :
             ( /\ QrLoginLookup(p, t)
               /\ \A i \in TokenRows(t) :
                     qrTokens[i].used # Null \/ qrTokens[i].expiresAt <= now )
             => /\ sent'.status = 401
                /\ pc'[p] = "idle"
       /\ \A p \in Procs :
             QrLoginMarkUsed(p, FALSE)
             => /\ sent'.status = 500
                /\ sent'.body = "Failed to create session"
                /\ \A i \in TokenRows(loc[p].token) : qrTokens'[i].used # Null
      ]_vars

C27_Witness ==
    /\ sent.route = "qr-login"
    /\ sent.status = 500
    /\ sent.body = "Failed to create session"
    /\ \E i \in TokenRows(sent.token) : qrTokens[i].used = Some(now)
    /\ redeemed[sent.token] = 1

(* C28: role gating of state changes.  A call of generate-qr by a caller   *)
(* whose stored role is not admin, of request-component by one whose role  *)
(* is not engineer, of fulfill-request by one whose role is not inventory, *)
(* a caller without a role or without a row included, answers 403 and      *)
(* leaves qr_tokens, component_requests and fulfillment_logs as they were; *)
(* and every row written names a user of the required role.                *)
C28_RoleGating ==
    [][/\ \A p \in Procs, caller \in UserIds \cup {UnknownUserId} :
             LET role == IF caller \in DOMAIN users THEN users[caller]
                         ELSE "unset"
                 refused == /\ sent'.status = 403
                            /\ pc'[p] = "idle"
                            /\ qrTokens' = qrTokens
                            /\ componentRequests' = componentRequests
                            /\ fulfillmentLogs' = fulfillmentLogs
             IN /\ (GenerateQr(p, caller, "eng") /\ role # "admin")
                      => refused
                /\ \A body \in RequestBodies({2}) :
                      (RequestComponent(p, caller, body) /\ role # "engineer")
                      => refused
                /\ (FulfillLookup(p, caller, 1, "QR-compA")
                      /\ role # "inventory")
                      => refused
       /\ Len(qrTokens') > Len(qrTokens)
             => \E p \in Procs, caller \in DOMAIN users :
                   users[caller] = "admin" /\ GenerateQr(p, caller, "eng")
       /\ \A r \in 1..Len(componentRequests') :
             /\ users[componentRequests'[r].requestedBy] = "engineer"
             /\ componentRequests'[r].fulfilledBy # NoId
                   => users[componentRequests'[r].fulfilledBy] = "inventory"
       /\ \A i \in 1..Len(fulfillmentLogs') :
             users[fulfillmentLogs'[i].inventoryPersonId] = "inventory"]_vars

C28_Witness ==
    /\ sent.status = 403
    /\ sent.route = "fulfill-request"
    /\ sent.requestId \in RequestIds
    /\ componentRequests[sent.requestId].status = "pending"
    /\ fulfillmentLogs = <<>>
    /\ Len(qrTokens) = 1
    /\ \A q \in Procs : pc[q] = "idle"

(* C29: QR resolution order.  A scan that names the type product, location *)
(* or component consults that lookup alone and answers in the same step;   *)
(* a scan with another type or none probes the product lookup, then the    *)
(* shelf-location lookup, then the component lookup, and answers with the  *)
(* first row found, so a code that is a product's and a component's at the *)
(* product probe resolves to the product; 404 is sent only from a probe    *)
(* after which every consulted lookup has found nothing; no scan step      *)
(* changes a table.                                                        *)
C29_ResolutionOrder ==
    [][\A p \in Procs :
          LET code == loc[p].qrCode
              product(c) ==
                  {x \in DOMAIN products : products[x].qrCodeData = c}
              location(c) ==
                  {l \in DOMAIN shelfLocations : shelfLocations[l].qrCode = c}
              component(c) ==
                  {x \in DOMAIN components : components[x].qrCode = c}
              only(c, type) ==
                  CASE type = "product" -> product(c)
                    [] type = "location" -> location(c)
                    [] type = "component" -> component(c)
              gives(rows) ==
                  /\ pc'[p] = "idle"
                  /\ IF rows = {} THEN sent'.status = 404
                     ELSE sent'.status = 200 /\ sent'.body \in rows
              same == UNCHANGED <<users, components, products,
                                  shelfLocations, qrTokens,
                                  componentRequests, fulfillmentLogs,
                                  productEvents, activityLogs>>
          IN /\ \A c \in ScanCodes \cup {UnknownQR}, type \in ScanTypes :
                   ScanQr(p, c, type, TRUE)
                   => /\ same
                      /\ IF type \in {"product", "location", "component"}
                         THEN gives(only(c, type))
                         ELSE IF product(c) # {}
                         THEN gives(product(c))
                         ELSE pc'[p] = "scan_location" /\ sent' = sent
             /\ ScanLocation(p, TRUE)
                   => /\ same
                      /\ IF location(code) # {}
                         THEN gives(location(code))
                         ELSE pc'[p] = "scan_component" /\ sent' = sent
             /\ ScanComponent(p, TRUE)
                   => same /\ gives(component(code))]_vars

C29_Witness ==
    /\ sent.route = "scan-qr"
    /\ sent.status = 200
    /\ sent.type = "unknown"
    /\ sent.body \in DOMAIN products
    /\ products[sent.body].qrCodeData = sent.qrCode
    /\ \E c \in DOMAIN components : components[c].qrCode = sent.qrCode

=============================================================================
